---- MODULE Spec2Model ----
(***************************************************************************)
(* Model of rag_modules/session_cache_manager.py: SessionCacheManager, the *)
(* session-scoped semantic cache and conversation-context manager.         *)
(*                                                                         *)
(* Texts (queries, responses, rendered prompts) are sequences of character *)
(* codes.  A Python dict is a sequence of records in insertion order (the  *)
(* order dict iteration and next(iter(d)) follow); the embedding dict, in  *)
(* which nothing depends on order, is a function on its key set.  A float  *)
(* is an exact rational [num, den]; den = 0 is NaN, the value numpy gives  *)
(* for 0.0 / 0.0.  The embedding vectors used have integer norms, so every *)
(* float the code computes is the correctly rounded value of the rational  *)
(* kept here and comparisons agree.                                        *)
(***************************************************************************)
EXTENDS Integers, Naturals, Sequences, FiniteSets, TLC

VARIABLES
    session_caches,      \* session_id -> dict query -> {response, timestamp}
    session_embeddings,  \* session_id -> dict query -> embedding
    session_contexts,    \* session_id -> list of {query, response, timestamp}
    now,                 \* the clock datetime.now() reads
    last,                \* the latest completed public call and what it returned
    threads              \* the calls in flight (concurrent specification)

vars == <<session_caches, session_embeddings, session_contexts, now, last, threads>>

tables == <<session_caches, session_embeddings, session_contexts>>

-----------------------------------------------------------------------------
(* Configuration set by __init__ *)

cache_threshold == [num |-> 3, den |-> 4]

max_session_cache_size == 50

max_context_length == 10

-----------------------------------------------------------------------------
(* Bounds of the model *)

\* the clock stops here: at most this many calls after Init
MaxTime == 2

\* calls in flight in the concurrent specification
NumThreads == 2

-----------------------------------------------------------------------------
(* Texts *)

Min(a, b) == IF a <= b THEN a ELSE b

\* the query text whose single character has code n
Query(n) == <<n>>

\* session ids callers pass; the empty string is falsy
SessionIds == {"s1", "s2"}

SessionArgs == SessionIds \cup {""}

Falsy(session_id) == session_id = ""

\* query texts callers pass: two cached from the start of a long conversation
\* (1 and 2) and one never cached before, whose embedding has zero norm (55)
QueryArgs == {Query(1), Query(2), Query(55)}

\* response texts callers pass, the empty text included
ResponseArgs == {<<>>, <<114>>}

-----------------------------------------------------------------------------
(* EmbeddingProvider: embedding_model.embed_documents([text])[0] *)

ZeroVector == <<0, 0, 0, 0, 0>>

\* a fixed text -> vector map; all norms are integers (1, 4, 5, 5, 0)
EmbedOf(text) ==
    CASE text[1] % 5 = 1 -> <<1, 0, 0, 0, 0>>
      [] text[1] % 5 = 2 -> <<3, 2, 1, 1, 1>>
      [] text[1] % 5 = 3 -> <<3, 4, 0, 0, 0>>
      [] text[1] % 5 = 4 -> <<4, 3, 0, 0, 0>>
      [] OTHER           -> ZeroVector

-----------------------------------------------------------------------------
(* Floats as rationals *)

Rat(n, d) == [num |-> n, den |-> d]

IsNaN(x) == x.den = 0

\* x > y and x >= y of IEEE floats: false when either side is NaN
FloatGT(x, y) == ~IsNaN(x) /\ ~IsNaN(y) /\ x.num * y.den > y.num * x.den

FloatGE(x, y) == ~IsNaN(x) /\ ~IsNaN(y) /\ x.num * y.den >= y.num * x.den

\* np.dot of two vectors of the provider's dimension
Dot(a, b) == a[1] * b[1] + a[2] * b[2] + a[3] * b[3] + a[4] * b[4] + a[5] * b[5]

\* np.linalg.norm on a vector whose squared length is a perfect square
Norm(a) == LET sq == Dot(a, a) IN CHOOSE n \in 0..sq : n * n = sq

\* dot / (norm1 * norm2); numpy floats: 0.0 / 0.0 is NaN, nothing is raised
calculate_similarity(embedding1, embedding2) ==
    Rat(Dot(embedding1, embedding2), Norm(embedding1) * Norm(embedding2))

-----------------------------------------------------------------------------
(* Python values *)

\* Optional[str]: None, or the one-element sequence holding the text
None == <<>>

Some(text) == <<text>>

\* truth value of an Optional[str]: None and the empty text are falsy
Truthy(opt) == opt # None /\ Len(opt[1]) > 0

\* dict in insertion order: a sequence of items with distinct .query keys
DictKeys(d) == {d[i].query : i \in DOMAIN d}

DictIndex(d, key) == CHOOSE i \in DOMAIN d : d[i].query = key

DictGet(d, key) == d[DictIndex(d, key)]

\* d[key] = item moving an existing key to the last place
DictSetLast(d, item) ==
    Append(SelectSeq(d, LAMBDA it : it.query # item.query), item)

\* d[key] = item: an existing key keeps its place, a new key goes last
DictSet(d, item) ==
    IF item.query \in DictKeys(d)
    THEN [d EXCEPT ![DictIndex(d, item.query)] = item]
    ELSE Append(d, item)

\* del d[key], for a key that is present
DictDel(d, key) == SelectSeq(d, LAMBDA it : it.query # key)

\* a function without one point of its domain
Without(f, key) == [k \in DOMAIN f \ {key} |-> f[k]]

CacheItem(query, response, timestamp) ==
    [query |-> query, response |-> response, timestamp |-> timestamp]

-----------------------------------------------------------------------------
(* check_semantic_cache *)

\* lines 70-75: one iteration of the loop, from the best so far to the next
ScanStep(best, cached_data, embeddings, query_embedding) ==
    LET cached_query == cached_data.query
        similarity == calculate_similarity(query_embedding, embeddings[cached_query])
    IN  IF /\ cached_query \in DOMAIN embeddings
           /\ FloatGT(similarity, best.similarity)
           /\ FloatGE(similarity, cache_threshold)
        THEN [similarity |-> similarity, response |-> Some(cached_data.response)]
        ELSE best

\* the iterations for items lo..hi in order, starting from best (the range is
\* halved only to keep the evaluation shallow; the order of the steps is the loop's)
RECURSIVE ScanRange(_, _, _, _, _, _)
ScanRange(best, session_cache, embeddings, query_embedding, lo, hi) ==
    IF lo > hi THEN best
    ELSE IF lo = hi THEN ScanStep(best, session_cache[lo], embeddings, query_embedding)
    ELSE LET mid == (lo + hi) \div 2
             left == ScanRange(best, session_cache, embeddings, query_embedding, lo, mid)
         IN  IF left = best \/ left # best    \* evaluates left before going on
             THEN ScanRange(left, session_cache, embeddings, query_embedding, mid + 1, hi)
             ELSE best

\* lines 66-75: the loop over session_cache.items(), in insertion order
BestMatch(session_cache, embeddings, query_embedding) ==
    ScanRange([similarity |-> Rat(0, 1), response |-> None],
              session_cache, embeddings, query_embedding, 1, Len(session_cache))

\* lines 77-81
ReturnOf(best_response) == IF Truthy(best_response) THEN best_response ELSE None

\* the whole call on given tables: [ret, raised]
CheckSemanticCache(caches, embeddings, query, session_id, embed_ok) ==
    IF Falsy(session_id) \/ session_id \notin DOMAIN caches
    THEN [ret |-> None, raised |-> FALSE]
    ELSE IF session_id \notin DOMAIN embeddings               \* KeyError, line 53
    THEN [ret |-> None, raised |-> TRUE]
    ELSE IF caches[session_id] = <<>>
    THEN [ret |-> None, raised |-> FALSE]
    ELSE IF ~embed_ok
    THEN [ret |-> None, raised |-> FALSE]
    ELSE [ret |-> ReturnOf(BestMatch(caches[session_id], embeddings[session_id],
                                     EmbedOf(query)).response),
          raised |-> FALSE]

-----------------------------------------------------------------------------
(* add_to_semantic_cache *)

\* lines 90-92: a first touch creates both per-session dicts
WithSession(table, session_id, empty) ==
    IF session_id \in DOMAIN table THEN table ELSE table @@ (session_id :> empty)

\* line 98 with > for >=
NeedsEvictionLate(session_cache) == Len(session_cache) > max_session_cache_size

\* line 98 with 1 for the limit
EvictsWhenNonEmpty(session_cache) == Len(session_cache) >= 1

\* line 98
NeedsEviction(session_cache) == Len(session_cache) >= max_session_cache_size

\* line 100 taking the last key for the first
NewestKey(session_cache) == session_cache[Len(session_cache)].query

\* line 100: next(iter(session_cache))
OldestKey(session_cache) == session_cache[1].query

\* line 101
EvictEntry(session_cache, oldest_key) == DictDel(session_cache, oldest_key)

\* line 102 left out
KeepEmbedding(embeddings, oldest_key) == embeddings

\* line 102
EvictEmbedding(embeddings, oldest_key) == Without(embeddings, oldest_key)

\* lines 108-111
WriteEntry(session_cache, query, response, timestamp) ==
    DictSet(session_cache, CacheItem(query, response, timestamp))

\* line 112
WriteEmbedding(embeddings, query, query_embedding) ==
    [k \in DOMAIN embeddings \cup {query} |->
        IF k = query THEN query_embedding ELSE embeddings[k]]

\* the whole call on given tables: the tables it leaves, [caches, embeddings].
\* Everything runs inside the try: a failed embedding call (line 105) ends the
\* call after lines 90-102 have taken effect.
AddToSemanticCache(caches, embeddings, query, response, session_id, embed_ok, timestamp) ==
    IF Falsy(session_id)
    THEN [caches |-> caches, embeddings |-> embeddings]
    ELSE LET caches1 == WithSession(caches, session_id, <<>>)
             embeddings1 == IF session_id \in DOMAIN caches
                            THEN embeddings
                            ELSE [k \in DOMAIN embeddings \cup {session_id} |->
                                    IF k = session_id THEN <<>> ELSE embeddings[k]]
             session_cache == caches1[session_id]
             evict == NeedsEviction(session_cache)
             oldest_key == OldestKey(session_cache)
             cache2 == IF evict THEN EvictEntry(session_cache, oldest_key)
                       ELSE session_cache
             emb2 == IF evict THEN EvictEmbedding(embeddings1[session_id], oldest_key)
                     ELSE embeddings1[session_id]
             cache3 == IF embed_ok THEN WriteEntry(cache2, query, response, timestamp)
                       ELSE cache2
             emb3 == IF embed_ok THEN WriteEmbedding(emb2, query, EmbedOf(query))
                     ELSE emb2
         IN  [caches |-> [caches1 EXCEPT ![session_id] = cache3],
              embeddings |-> [embeddings1 EXCEPT ![session_id] = emb3]]

-----------------------------------------------------------------------------
(* add_to_context *)

\* lines 132-136
AppendTurn(context, query, response, timestamp) ==
    Append(context, CacheItem(query, response, timestamp))

\* lines 139-140 with pop() for pop(0)
TrimNewest(context) ==
    IF Len(context) > max_context_length THEN SubSeq(context, 1, Len(context) - 1) ELSE context

\* lines 139-140: context.pop(0) once the list is longer than the limit
TrimContext(context) ==
    IF Len(context) > max_context_length THEN Tail(context) ELSE context

AddToContext(contexts, session_id, query, response, timestamp) ==
    IF Falsy(session_id)
    THEN contexts
    ELSE LET contexts1 == WithSession(contexts, session_id, <<>>)
         IN  [contexts1 EXCEPT ![session_id] =
                 TrimContext(AppendTurn(contexts1[session_id], query, response, timestamp))]

-----------------------------------------------------------------------------
(* get_context_for_query *)

UserPrefix == <<29992, 25143, 38382, 58, 32>>            \* "用户问: "

AnswerPrefix == <<65, 73, 31572, 58, 32>>                \* "AI答: "

CurrentPrefix == <<24403, 21069, 38382, 39064, 58, 32>>  \* "当前问题: "

Ellipsis == <<46, 46, 46>>                               \* "..."

Newline == <<10>>

\* text[:n]
Prefix(text, n) == SubSeq(text, 1, Min(n, Len(text)))

\* line 161 without the slice
WholeContext(context) == context

\* line 161: context[-3:] if len(context) > 3 else context
RecentContext(context) ==
    IF Len(context) > 3 THEN SubSeq(context, Len(context) - 2, Len(context)) ELSE context

\* lines 163-168: the lines of the prompt, in order
RECURSIVE ContextParts(_, _)
ContextParts(recent_context, current_query) ==
    IF recent_context = <<>>
    THEN <<CurrentPrefix \o current_query>>
    ELSE <<UserPrefix \o Head(recent_context).query,
           AnswerPrefix \o Prefix(Head(recent_context).response, 100) \o Ellipsis>>
         \o ContextParts(Tail(recent_context), current_query)

\* "\n".join(parts)
RECURSIVE Join(_)
Join(parts) ==
    IF Len(parts) = 1 THEN parts[1] ELSE parts[1] \o Newline \o Join(Tail(parts))

GetContextForQuery(contexts, session_id, current_query) ==
    IF Falsy(session_id) \/ session_id \notin DOMAIN contexts
    THEN current_query
    ELSE IF contexts[session_id] = <<>>
    THEN current_query
    ELSE Join(ContextParts(RecentContext(contexts[session_id]), current_query))

-----------------------------------------------------------------------------
(* get_session_stats *)

RECURSIVE SumLen(_, _)
SumLen(table, keys) ==
    IF keys = {} THEN 0
    ELSE LET k == CHOOSE x \in keys : TRUE
         IN  Len(table[k]) + SumLen(table, keys \ {k})

GetSessionStats(caches, contexts) ==
    [total_sessions |-> Cardinality(DOMAIN caches),
     total_cached_queries |-> SumLen(caches, DOMAIN caches),
     total_contexts |-> SumLen(contexts, DOMAIN contexts),
     cache_threshold |-> cache_threshold,
     max_session_cache_size |-> max_session_cache_size,
     max_context_length |-> max_context_length]

-----------------------------------------------------------------------------
(* clear_session_cache, clear_all_caches *)

\* "if session_id in table: del table[session_id]"
DropSession(table, session_id) == Without(table, session_id)

\* lines 192-193 clearing the whole table
DropEverySession(caches, session_id) == [k \in {} |-> <<>>]

\* lines 192-193
ClearCaches(caches, session_id) == DropSession(caches, session_id)

\* lines 194-195 binding an empty dict instead of deleting
ResetEmbeddings(embeddings, session_id) ==
    [k \in DOMAIN embeddings \cup {session_id} |->
        IF k = session_id THEN <<>> ELSE embeddings[k]]

\* lines 194-195
ClearEmbeddings(embeddings, session_id) == DropSession(embeddings, session_id)

\* lines 196-197 left out
KeepContexts(contexts, session_id) == contexts

\* lines 196-197
ClearContexts(contexts, session_id) == DropSession(contexts, session_id)

\* table.clear()
Cleared(table) == [k \in {} |-> <<>>]

-----------------------------------------------------------------------------
(* Initial states: a fresh manager, or one that has served some turns *)

\* the response the pipeline produced for the i-th turn of the history
HistResponse(i) == <<114, i>>

\* the i-th query of the conversation on a session
HistQuery(session_id, i) == IF session_id = "s1" THEN Query(i) ELSE Query(i + 2)

\* the tables of one session after a conversation of k <= max_session_cache_size
\* turns on it whose first timestamp is t0 + 1: turn i caches its query
\* (add_to_semantic_cache, embedding computed) and then appends it to the context
\* (add_to_context), so the cache holds all k queries and the context the last
\* max_context_length turns
HistCache(session_id, k, t0) ==
    [i \in 1..k |-> CacheItem(HistQuery(session_id, i), HistResponse(i), t0 + 2 * i - 1)]

HistEmbeddings(session_id, k) ==
    [q \in {HistQuery(session_id, i) : i \in 1..k} |-> EmbedOf(q)]

HistContext(session_id, k, t0) ==
    LET kept == Min(k, max_context_length)
    IN  [j \in 1..kept |-> CacheItem(HistQuery(session_id, k - kept + j),
                                     HistResponse(k - kept + j), t0 + 2 * (k - kept + j))]

\* the tables after k1 turns on "s1" followed by k2 turns on "s2", ending at time 0
History(k1, k2) ==
    LET live == {s \in SessionIds : IF s = "s1" THEN k1 > 0 ELSE k2 > 0}
        k(s) == IF s = "s1" THEN k1 ELSE k2
        t0(s) == IF s = "s1" THEN 0 - 2 * (k1 + k2) ELSE 0 - 2 * k2
    IN  [caches |-> [s \in live |-> HistCache(s, k(s), t0(s))],
         embeddings |-> [s \in live |-> HistEmbeddings(s, k(s))],
         contexts |-> [s \in live |-> HistContext(s, k(s), t0(s))]]

\* lengths of the conversations the model starts from
InitTurns1 == {max_session_cache_size - 1, max_session_cache_size}

InitTurns2 == {0, 1}

Call(op, session_id, query, response, embed_ok, ret, raised) ==
    [op |-> op, session_id |-> session_id, query |-> query, response |-> response,
     embed_ok |-> embed_ok, ret |-> ret, raised |-> raised]

NoCall == Call("init", "", <<>>, <<>>, TRUE, None, FALSE)

Init ==
    \E k1 \in InitTurns1, k2 \in InitTurns2 :
        /\ session_caches = History(k1, k2).caches
        /\ session_embeddings = History(k1, k2).embeddings
        /\ session_contexts = History(k1, k2).contexts
        /\ now = 0
        /\ last = NoCall
        /\ threads = <<>>

-----------------------------------------------------------------------------
(* The public operations, each executed as a whole.  The clock moves on by *)
(* one between any two calls.                                               *)

Tick == now < MaxTime /\ now' = now + 1

check_semantic_cache(query, session_id, embed_ok) ==
    LET r == CheckSemanticCache(session_caches, session_embeddings, query, session_id, embed_ok)
    IN  /\ Tick
        /\ last' = Call("check_semantic_cache", session_id, query, <<>>, embed_ok,
                        r.ret, r.raised)
        /\ UNCHANGED <<tables, threads>>

add_to_semantic_cache(query, response, session_id, embed_ok) ==
    LET r == AddToSemanticCache(session_caches, session_embeddings, query, response,
                                session_id, embed_ok, now + 1)
    IN  /\ Tick
        /\ session_caches' = r.caches
        /\ session_embeddings' = r.embeddings
        /\ last' = Call("add_to_semantic_cache", session_id, query, response, embed_ok,
                        None, FALSE)
        /\ UNCHANGED <<session_contexts, threads>>

add_to_context(session_id, query, response) ==
    /\ Tick
    /\ session_contexts' = AddToContext(session_contexts, session_id, query, response, now + 1)
    /\ last' = Call("add_to_context", session_id, query, response, TRUE, None, FALSE)
    /\ UNCHANGED <<session_caches, session_embeddings, threads>>

get_context_for_query(session_id, current_query) ==
    /\ Tick
    /\ last' = Call("get_context_for_query", session_id, current_query, <<>>, TRUE,
                    GetContextForQuery(session_contexts, session_id, current_query), FALSE)
    /\ UNCHANGED <<tables, threads>>

get_session_stats ==
    /\ Tick
    /\ last' = Call("get_session_stats", "", <<>>, <<>>, TRUE,
                    GetSessionStats(session_caches, session_contexts), FALSE)
    /\ UNCHANGED <<tables, threads>>

clear_session_cache(session_id) ==
    /\ Tick
    /\ session_caches' = ClearCaches(session_caches, session_id)
    /\ session_embeddings' = ClearEmbeddings(session_embeddings, session_id)
    /\ session_contexts' = ClearContexts(session_contexts, session_id)
    /\ last' = Call("clear_session_cache", session_id, <<>>, <<>>, TRUE, None, FALSE)
    /\ UNCHANGED threads

clear_all_caches ==
    /\ Tick
    /\ session_caches' = Cleared(session_caches)
    /\ session_embeddings' = Cleared(session_embeddings)
    /\ session_contexts' = Cleared(session_contexts)
    /\ last' = Call("clear_all_caches", "", <<>>, <<>>, TRUE, None, FALSE)
    /\ UNCHANGED threads

Next ==
    \/ \E q \in QueryArgs, s \in SessionArgs, ok \in BOOLEAN :
          check_semantic_cache(q, s, ok)
    \/ \E q \in QueryArgs, r \in ResponseArgs, s \in SessionArgs, ok \in BOOLEAN :
          add_to_semantic_cache(q, r, s, ok)
    \/ \E s \in SessionArgs, q \in QueryArgs, r \in ResponseArgs :
          add_to_context(s, q, r)
    \/ \E s \in SessionArgs, q \in QueryArgs :
          get_context_for_query(s, q)
    \/ get_session_stats
    \/ \E s \in SessionArgs :
          clear_session_cache(s)
    \/ clear_all_caches

Spec == Init /\ [][Next]_vars

\* the same operations on a manager that has served only short conversations
ShortTurns1 == {0, 2}

InitShort ==
    \E k1 \in ShortTurns1, k2 \in InitTurns2 :
        /\ session_caches = History(k1, k2).caches
        /\ session_embeddings = History(k1, k2).embeddings
        /\ session_contexts = History(k1, k2).contexts
        /\ now = 0
        /\ last = NoCall
        /\ threads = <<>>

SpecShort == InitShort /\ [][Next]_vars

-----------------------------------------------------------------------------
(* The conversation context alone: turns appended with responses around    *)
(* the 100 characters the prompt keeps of each, and prompts built.         *)

\* a response of n characters
ResponseOfLen(n) == [j \in 1..n |-> 97 + (j % 26)]

\* responses of 0, 100 and 101 characters
ContextResponses == {ResponseOfLen(0), ResponseOfLen(100), ResponseOfLen(100 + 1)}

\* turns already on "s1": none, fewer than three, more than three
ContextTurns == {0, 2, 4}

InitContext ==
    \E k1 \in ContextTurns :
        /\ session_caches = History(k1, 0).caches
        /\ session_embeddings = History(k1, 0).embeddings
        /\ session_contexts = History(k1, 0).contexts
        /\ now = 0
        /\ last = NoCall
        /\ threads = <<>>

NextContext ==
    \/ \E s \in SessionArgs, q \in QueryArgs, r \in ContextResponses :
          add_to_context(s, q, r)
    \/ \E s \in SessionArgs, q \in QueryArgs :
          get_context_for_query(s, q)

SpecContext == InitContext /\ [][NextContext]_vars

-----------------------------------------------------------------------------
(* _calculate_similarity applied to pairs of vectors *)

Scale(k, a) == [i \in DOMAIN a |-> k * a[i]]

\* the multiples applied to the provider's vectors
Scales == {0 - 1, 1, 2}

\* the provider's vectors, the zero vector among them, reversed and doubled
Vectors == {Scale(k, EmbedOf(Query(n))) : k \in Scales, n \in 1..5}

SimilarityCall(embedding1, embedding2, ret, raised) ==
    [op |-> "_calculate_similarity", embedding1 |-> embedding1,
     embedding2 |-> embedding2, ret |-> ret, raised |-> raised]

\* numpy raises nothing on a division by zero (it warns): the bare except of
\* line 44 is never entered for vectors of the same dimension
call_calculate_similarity(embedding1, embedding2) ==
    /\ last' = SimilarityCall(embedding1, embedding2,
                              calculate_similarity(embedding1, embedding2), FALSE)
    /\ UNCHANGED <<tables, now, threads>>

InitVectors ==
    /\ session_caches = History(0, 0).caches
    /\ session_embeddings = History(0, 0).embeddings
    /\ session_contexts = History(0, 0).contexts
    /\ now = 0
    /\ last = NoCall
    /\ threads = <<>>

NextVectors == \E a \in Vectors, b \in Vectors : call_calculate_similarity(a, b)

SpecVectors == InitVectors /\ [][NextVectors]_vars

-----------------------------------------------------------------------------
(* Concurrent calls, one per thread, interleaved statement by statement:   *)
(* add_to_semantic_cache, check_semantic_cache and clear_session_cache on  *)
(* one session.  The class takes no lock.                                  *)
(*                                                                         *)
(* session_cache and session_embeddings (lines 52-53, 94-95) are           *)
(* references.  A reference is 0 while its dict is the one bound in the    *)
(* table for the session; when the table entry is bound to another dict or *)
(* deleted (lines 91, 92, 193, 195 run by another call) the old dict moves *)
(* to the heap and the references to it become its heap index.             *)

Threads == 1..NumThreads

\* where each operation starts
StartPc(op) ==
    CASE op = "add" -> "l86"
      [] op = "check" -> "l49"
      [] op = "clear" -> "l192"
      [] op = "context" -> "l122"

\* a call in flight: its operation and arguments, its position, its locals
\* (the dict iterator of line 69 among them), how it ended and what it returned
Frame(op, query, response, session_id) ==
    [op |-> op, query |-> query, response |-> response, session_id |-> session_id,
     pc |-> StartPc(op), session_cache |-> 0, session_embeddings |-> 0, context |-> 0,
     oldest_key |-> <<>>, embedded |-> FALSE,
     index |-> 0, skew |-> 0, size |-> 0, left |-> 0, item |-> <<>>,
     best |-> [similarity |-> Rat(0, 1), response |-> None],
     outcome |-> "running", ret |-> None]

At(t, pc) == threads.frames[t].pc = pc

Local(t) == threads.frames[t]

SessionOf(t) == Local(t).session_id

SetFrames(frames) == threads' = [threads EXCEPT !.frames = frames]

Goto(t, pc) == SetFrames([threads.frames EXCEPT ![t].pc = pc])

\* an exception that ends the call (caught at line 116 in add_to_semantic_cache,
\* propagated to the caller by the other two), or a return without a value
Return(t, outcome) ==
    SetFrames([threads.frames EXCEPT ![t].pc = "done", ![t].outcome = outcome])

\* return of a value
ReturnValue(t, ret) ==
    SetFrames([threads.frames EXCEPT ![t].pc = "done", ![t].outcome = "returned",
                                     ![t].ret = ret])

\* the positions at which a frame holds a dict in local variable `name`
HoldingPcs(name) ==
    IF name = "context" THEN {"l132", "l139", "l140"}
    ELSE {"l98", "l100", "l101", "l102", "l105", "l108", "l112",
          "l55", "l60", "l66", "l69", "l70", "l77"}
         \cup (IF name = "session_cache" THEN {"l95", "l53"} ELSE {})

\* the frames that hold, in local variable `name`, the dict bound for session_id
Holders(name, session_id) ==
    {u \in Threads : /\ threads.frames[u].session_id = session_id
                     /\ threads.frames[u].pc \in HoldingPcs(name)
                     /\ threads.frames[u][name] = 0}

\* binding a fresh dict for session_id in a table, or deleting the binding: the
\* dict that was bound stays alive on the heap as long as a frame refers to it
Rebind(t, name, table, session_id, pc) ==
    LET holders == IF session_id \in DOMAIN table THEN Holders(name, session_id) ELSE {}
        index == Len(threads.heap) + 1
    IN  threads' =
          [heap |-> IF holders = {} THEN threads.heap
                    ELSE Append(threads.heap, table[session_id]),
           frames |-> [u \in Threads |->
                         IF u = t THEN [threads.frames[u] EXCEPT !.pc = pc]
                         ELSE IF u \in holders THEN [threads.frames[u] EXCEPT ![name] = index]
                         ELSE threads.frames[u]]]

\* the dict a reference denotes
Deref(ref, table, session_id) == IF ref = 0 THEN table[session_id] ELSE threads.heap[ref]

CacheOf(t) == Deref(Local(t).session_cache, session_caches, SessionOf(t))

EmbeddingsOf(t) == Deref(Local(t).session_embeddings, session_embeddings, SessionOf(t))

\* the histories the concurrent calls start from: no session, or a full one
ConcTurns == {0, max_session_cache_size}

\* the operations a thread may run: any for the first, a writer for the others
ConcOps(t) == IF t = 1 THEN {"add", "check", "clear"} ELSE {"add", "clear"}

\* the inserts bring distinct query texts that were never cached; the lookup
\* asks for the first query of the history
ConcQuery(t, op) ==
    IF op = "add" THEN Query(max_session_cache_size + t) ELSE Query(1)

InitConc ==
    \E k1 \in ConcTurns :
        \E ops \in [Threads -> {"add", "check", "clear"}] :
            /\ \A t \in Threads : ops[t] \in ConcOps(t)
            /\ session_caches = History(k1, 0).caches
            /\ session_embeddings = History(k1, 0).embeddings
            /\ session_contexts = History(k1, 0).contexts
            /\ now = 0
            /\ last = NoCall
            /\ threads = [heap |-> <<>>,
                          frames |-> [t \in Threads |->
                                        Frame(ops[t], ConcQuery(t, ops[t]), <<114>>, "s1")]]

\* line 86
add_entry(t) ==
    /\ At(t, "l86")
    /\ IF Falsy(SessionOf(t)) THEN Return(t, "returned") ELSE Goto(t, "l90")
    /\ UNCHANGED <<tables, now, last>>

\* line 90
add_test_session(t) ==
    /\ At(t, "l90")
    /\ IF SessionOf(t) \in DOMAIN session_caches THEN Goto(t, "l94") ELSE Goto(t, "l91")
    /\ UNCHANGED <<tables, now, last>>

\* line 91
add_new_cache(t) ==
    /\ At(t, "l91")
    /\ session_caches' = [k \in DOMAIN session_caches \cup {SessionOf(t)} |->
                            IF k = SessionOf(t) THEN <<>> ELSE session_caches[k]]
    /\ Rebind(t, "session_cache", session_caches, SessionOf(t), "l92")
    /\ UNCHANGED <<session_embeddings, session_contexts, now, last>>

\* line 92
add_new_embeddings(t) ==
    /\ At(t, "l92")
    /\ session_embeddings' = [k \in DOMAIN session_embeddings \cup {SessionOf(t)} |->
                                IF k = SessionOf(t) THEN <<>> ELSE session_embeddings[k]]
    /\ Rebind(t, "session_embeddings", session_embeddings, SessionOf(t), "l94")
    /\ UNCHANGED <<session_caches, session_contexts, now, last>>

\* line 94: a missing session raises KeyError
add_take_cache(t) ==
    /\ At(t, "l94")
    /\ IF SessionOf(t) \in DOMAIN session_caches
       THEN SetFrames([threads.frames EXCEPT ![t].pc = "l95", ![t].session_cache = 0])
       ELSE Return(t, "failed")
    /\ UNCHANGED <<tables, now, last>>

\* line 95
add_take_embeddings(t) ==
    /\ At(t, "l95")
    /\ IF SessionOf(t) \in DOMAIN session_embeddings
       THEN SetFrames([threads.frames EXCEPT ![t].pc = "l98", ![t].session_embeddings = 0])
       ELSE Return(t, "failed")
    /\ UNCHANGED <<tables, now, last>>

\* line 98
add_test_size(t) ==
    /\ At(t, "l98")
    /\ IF NeedsEviction(CacheOf(t)) THEN Goto(t, "l100") ELSE Goto(t, "l105")
    /\ UNCHANGED <<tables, now, last>>

\* line 100: next(iter(...)) of an empty dict raises StopIteration
add_pick_oldest(t) ==
    /\ At(t, "l100")
    /\ IF CacheOf(t) = <<>>
       THEN Return(t, "failed")
       ELSE SetFrames([threads.frames EXCEPT ![t].pc = "l101",
                          ![t].oldest_key = OldestKey(CacheOf(t))])
    /\ UNCHANGED <<tables, now, last>>

\* the dict behind a reference replaced by `value`, the frames replaced by
\* `frames` and the frame of t moved on
Store(t, ref, table, value, frames, pc, outcome) ==
    /\ table' = IF ref = 0 THEN [table EXCEPT ![SessionOf(t)] = value] ELSE table
    /\ threads' = [heap |-> IF ref = 0 THEN threads.heap
                            ELSE [threads.heap EXCEPT ![ref] = value],
                   frames |-> [frames EXCEPT ![t].pc = pc, ![t].outcome = outcome]]

\* the frames whose iterator (line 69) runs over the dict t refers to
Iterating(t) ==
    {u \in Threads \ {t} : /\ Local(u).pc \in {"l69", "l70"}
                           /\ Local(u).session_id = SessionOf(t)
                           /\ Local(u).session_cache = Local(t).session_cache}

\* the iterators after the entry at place `at` of their dict was deleted: the
\* slot stays in the dict's entry array as a hole, so an iterator that is past
\* it has one live entry less, and one hole more, behind it
AfterDelete(t, at) ==
    [u \in Threads |->
        IF u \in Iterating(t) /\ at <= Local(u).index
        THEN [Local(u) EXCEPT !.index = @ - 1, !.skew = @ + 1]
        ELSE Local(u)]

\* the iterators after an insert of a new key into a dict of n entries: when
\* the insert resizes the entry array the holes go, and an iterator stands as
\* many live entries further as it had holes behind it
AfterInsert(t, n, resized) ==
    [u \in Threads |->
        IF u \in Iterating(t) /\ resized
        THEN [Local(u) EXCEPT !.index = Min(@ + Local(u).skew, n), !.skew = 0]
        ELSE Local(u)]

\* line 101: del of a key another call has already removed raises KeyError
add_evict_entry(t) ==
    /\ At(t, "l101")
    /\ IF Local(t).oldest_key \in DictKeys(CacheOf(t))
       THEN Store(t, Local(t).session_cache, session_caches,
                  EvictEntry(CacheOf(t), Local(t).oldest_key),
                  AfterDelete(t, DictIndex(CacheOf(t), Local(t).oldest_key)),
                  "l102", "running")
       ELSE /\ Return(t, "failed")
            /\ UNCHANGED session_caches
    /\ UNCHANGED <<session_embeddings, session_contexts, now, last>>

\* line 102
add_evict_embedding(t) ==
    /\ At(t, "l102")
    /\ IF Local(t).oldest_key \in DOMAIN EmbeddingsOf(t)
       THEN Store(t, Local(t).session_embeddings, session_embeddings,
                  EvictEmbedding(EmbeddingsOf(t), Local(t).oldest_key),
                  threads.frames, "l105", "running")
       ELSE /\ Return(t, "failed")
            /\ UNCHANGED session_embeddings
    /\ UNCHANGED <<session_caches, session_contexts, now, last>>

\* line 105: the embedding call returns a vector or raises
add_embed(t, embed_ok) ==
    /\ At(t, "l105")
    /\ IF embed_ok
       THEN SetFrames([threads.frames EXCEPT ![t].pc = "l108", ![t].embedded = TRUE])
       ELSE Return(t, "failed")
    /\ UNCHANGED <<tables, now, last>>

\* lines 108-111; whether the insert of a new key resizes the entry array
\* depends on how many slots the dict has used up
add_write_entry(t, resized) ==
    /\ At(t, "l108")
    /\ now' = now + 1
    /\ Store(t, Local(t).session_cache, session_caches,
             WriteEntry(CacheOf(t), Local(t).query, Local(t).response, now + 1),
             IF Local(t).query \in DictKeys(CacheOf(t)) THEN threads.frames
             ELSE AfterInsert(t, Len(CacheOf(t)) + 1, resized),
             "l112", "running")
    /\ UNCHANGED <<session_embeddings, session_contexts, last>>

\* line 112
add_write_embedding(t) ==
    /\ At(t, "l112")
    /\ Store(t, Local(t).session_embeddings, session_embeddings,
             WriteEmbedding(EmbeddingsOf(t), Local(t).query, EmbedOf(Local(t).query)),
             threads.frames, "done", "returned")
    /\ UNCHANGED <<session_caches, session_contexts, now, last>>

\* line 49
check_entry(t) ==
    /\ At(t, "l49")
    /\ IF Falsy(SessionOf(t)) \/ SessionOf(t) \notin DOMAIN session_caches
       THEN ReturnValue(t, None)
       ELSE Goto(t, "l52")
    /\ UNCHANGED <<tables, now, last>>

\* line 52: a session deleted since line 49 raises KeyError; nothing catches it
check_take_cache(t) ==
    /\ At(t, "l52")
    /\ IF SessionOf(t) \in DOMAIN session_caches
       THEN SetFrames([threads.frames EXCEPT ![t].pc = "l53", ![t].session_cache = 0])
       ELSE Return(t, "failed")
    /\ UNCHANGED <<tables, now, last>>

\* line 53: a session without its embedding dict raises KeyError
check_take_embeddings(t) ==
    /\ At(t, "l53")
    /\ IF SessionOf(t) \in DOMAIN session_embeddings
       THEN SetFrames([threads.frames EXCEPT ![t].pc = "l55", ![t].session_embeddings = 0])
       ELSE Return(t, "failed")
    /\ UNCHANGED <<tables, now, last>>

\* lines 55-56
check_test_empty(t) ==
    /\ At(t, "l55")
    /\ IF CacheOf(t) = <<>> THEN ReturnValue(t, None) ELSE Goto(t, "l60")
    /\ UNCHANGED <<tables, now, last>>

\* lines 58-63: the embedding call returns a vector, or raises and none is returned
check_embed(t, embed_ok) ==
    /\ At(t, "l60")
    /\ IF embed_ok THEN Goto(t, "l66") ELSE ReturnValue(t, None)
    /\ UNCHANGED <<tables, now, last>>

\* lines 66-69: the best so far, and the iterator over session_cache.items(),
\* which remembers the size of the dict and how many items it has to give
check_start_loop(t) ==
    /\ At(t, "l66")
    /\ SetFrames([threads.frames EXCEPT
                     ![t].pc = "l69",
                     ![t].best = [similarity |-> Rat(0, 1), response |-> None],
                     ![t].index = 0, ![t].skew = 0,
                     ![t].size = Len(CacheOf(t)), ![t].left = Len(CacheOf(t))])
    /\ UNCHANGED <<tables, now, last>>

\* line 69, one step of the iterator: RuntimeError when the dict has changed
\* size; the end of the loop when no entry is left; else the next entry, which
\* on a build that counts the items (strict) is a RuntimeError when the
\* iterator has already given as many as the dict held
check_next(t, strict) ==
    /\ At(t, "l69")
    /\ IF Len(CacheOf(t)) # Local(t).size
       THEN Return(t, "failed")
       ELSE IF Local(t).index >= Len(CacheOf(t))
       THEN Goto(t, "l77")
       ELSE IF Local(t).left = 0 /\ strict
       THEN Return(t, "failed")
       ELSE SetFrames([threads.frames EXCEPT
                          ![t].pc = "l70",
                          ![t].item = CacheOf(t)[Local(t).index + 1],
                          ![t].index = @ + 1,
                          ![t].left = IF @ > 0 THEN @ - 1 ELSE 0])
    /\ UNCHANGED <<tables, now, last>>

\* lines 70-75
check_body(t) ==
    /\ At(t, "l70")
    /\ SetFrames([threads.frames EXCEPT
                     ![t].pc = "l69",
                     ![t].best = ScanStep(@, Local(t).item, EmbeddingsOf(t),
                                          EmbedOf(Local(t).query))])
    /\ UNCHANGED <<tables, now, last>>

\* lines 77-81
check_return(t) ==
    /\ At(t, "l77")
    /\ ReturnValue(t, ReturnOf(Local(t).best.response))
    /\ UNCHANGED <<tables, now, last>>

\* line 192
clear_test_caches(t) ==
    /\ At(t, "l192")
    /\ IF SessionOf(t) \in DOMAIN session_caches THEN Goto(t, "l193") ELSE Goto(t, "l194")
    /\ UNCHANGED <<tables, now, last>>

\* line 194
clear_test_embeddings(t) ==
    /\ At(t, "l194")
    /\ IF SessionOf(t) \in DOMAIN session_embeddings THEN Goto(t, "l195") ELSE Goto(t, "l196")
    /\ UNCHANGED <<tables, now, last>>

\* line 196
clear_test_contexts(t) ==
    /\ At(t, "l196")
    /\ IF SessionOf(t) \in DOMAIN session_contexts THEN Goto(t, "l197") ELSE Goto(t, "l198")
    /\ UNCHANGED <<tables, now, last>>

\* line 193: del of a session another call has already deleted raises KeyError
clear_del_caches(t) ==
    /\ At(t, "l193")
    /\ IF SessionOf(t) \in DOMAIN session_caches
       THEN /\ session_caches' = ClearCaches(session_caches, SessionOf(t))
            /\ Rebind(t, "session_cache", session_caches, SessionOf(t), "l194")
       ELSE /\ Return(t, "failed")
            /\ UNCHANGED session_caches
    /\ UNCHANGED <<session_embeddings, session_contexts, now, last>>

\* line 195
clear_del_embeddings(t) ==
    /\ At(t, "l195")
    /\ IF SessionOf(t) \in DOMAIN session_embeddings
       THEN /\ session_embeddings' = ClearEmbeddings(session_embeddings, SessionOf(t))
            /\ Rebind(t, "session_embeddings", session_embeddings, SessionOf(t), "l196")
       ELSE /\ Return(t, "failed")
            /\ UNCHANGED session_embeddings
    /\ UNCHANGED <<session_caches, session_contexts, now, last>>

\* line 197
clear_del_contexts(t) ==
    /\ At(t, "l197")
    /\ IF SessionOf(t) \in DOMAIN session_contexts
       THEN /\ session_contexts' = ClearContexts(session_contexts, SessionOf(t))
            /\ Goto(t, "l198")
       ELSE /\ Return(t, "failed")
            /\ UNCHANGED session_contexts
    /\ UNCHANGED <<session_caches, session_embeddings, now, last>>

\* line 198
clear_return(t) ==
    /\ At(t, "l198")
    /\ Return(t, "returned")
    /\ UNCHANGED <<tables, now, last>>

NextConc ==
    \E t \in Threads :
        \/ add_entry(t)
        \/ add_test_session(t)
        \/ add_new_cache(t)
        \/ add_new_embeddings(t)
        \/ add_take_cache(t)
        \/ add_take_embeddings(t)
        \/ add_test_size(t)
        \/ add_pick_oldest(t)
        \/ add_evict_entry(t)
        \/ add_evict_embedding(t)
        \/ \E embed_ok \in BOOLEAN : add_embed(t, embed_ok)
        \/ \E resized \in BOOLEAN : add_write_entry(t, resized)
        \/ add_write_embedding(t)
        \/ check_entry(t)
        \/ check_take_cache(t)
        \/ check_take_embeddings(t)
        \/ check_test_empty(t)
        \/ \E embed_ok \in BOOLEAN : check_embed(t, embed_ok)
        \/ check_start_loop(t)
        \/ \E strict \in BOOLEAN : check_next(t, strict)
        \/ check_body(t)
        \/ check_return(t)
        \/ clear_test_caches(t)
        \/ clear_test_embeddings(t)
        \/ clear_test_contexts(t)
        \/ clear_del_caches(t)
        \/ clear_del_embeddings(t)
        \/ clear_del_contexts(t)
        \/ clear_return(t)

SpecConc == InitConc /\ [][NextConc]_vars

-----------------------------------------------------------------------------
(* Concurrent calls of add_to_context, one per thread, interleaved         *)
(* statement by statement.  `context` (line 129) is a reference to the     *)
(* session's list, kept like the dict references above.  list.append and   *)
(* list.pop are single steps.                                              *)

ContextOf(t) == Deref(Local(t).context, session_contexts, SessionOf(t))

\* line 139 with the limit one higher
TooLongLate(context) == Len(context) > max_context_length + 1

\* line 139
TooLong(context) == Len(context) > max_context_length

\* line 140: context.pop(0)
PopFirst(context) == Tail(context)

\* the turns already on "s1": none, one below the limit, the limit
ConcContextTurns == {0, max_context_length - 1, max_context_length}

\* each thread appends a turn of its own to a session of its choice
InitConcContext ==
    \E k1 \in ConcContextTurns :
        \E ids \in [Threads -> SessionArgs] :
            /\ session_caches = History(k1, 0).caches
            /\ session_embeddings = History(k1, 0).embeddings
            /\ session_contexts = History(k1, 0).contexts
            /\ now = 0
            /\ last = NoCall
            /\ threads = [heap |-> <<>>,
                          frames |-> [t \in Threads |->
                                        Frame("context", Query(max_session_cache_size + t),
                                              <<114>>, ids[t])]]

\* lines 122-123
context_entry(t) ==
    /\ At(t, "l122")
    /\ IF Falsy(SessionOf(t)) THEN Return(t, "returned") ELSE Goto(t, "l126")
    /\ UNCHANGED <<tables, now, last>>

\* line 126
context_test_session(t) ==
    /\ At(t, "l126")
    /\ IF SessionOf(t) \in DOMAIN session_contexts THEN Goto(t, "l129") ELSE Goto(t, "l127")
    /\ UNCHANGED <<tables, now, last>>

\* line 127: binds a new list, also when another call has bound one since line 126
context_new_list(t) ==
    /\ At(t, "l127")
    /\ session_contexts' = [k \in DOMAIN session_contexts \cup {SessionOf(t)} |->
                              IF k = SessionOf(t) THEN <<>> ELSE session_contexts[k]]
    /\ Rebind(t, "context", session_contexts, SessionOf(t), "l129")
    /\ UNCHANGED <<session_caches, session_embeddings, now, last>>

\* line 129: a missing session raises KeyError, caught at line 144
context_take_list(t) ==
    /\ At(t, "l129")
    /\ IF SessionOf(t) \in DOMAIN session_contexts
       THEN SetFrames([threads.frames EXCEPT ![t].pc = "l132", ![t].context = 0])
       ELSE Return(t, "failed")
    /\ UNCHANGED <<tables, now, last>>

\* lines 132-136
context_append(t) ==
    /\ At(t, "l132")
    /\ now' = now + 1
    /\ Store(t, Local(t).context, session_contexts,
             AppendTurn(ContextOf(t), Local(t).query, Local(t).response, now + 1),
             threads.frames, "l139", "running")
    /\ UNCHANGED <<session_caches, session_embeddings, last>>

\* line 139
context_test_length(t) ==
    /\ At(t, "l139")
    /\ IF TooLong(ContextOf(t)) THEN Goto(t, "l140") ELSE Return(t, "returned")
    /\ UNCHANGED <<tables, now, last>>

\* line 140: pop from an empty list raises IndexError, caught at line 144
context_pop(t) ==
    /\ At(t, "l140")
    /\ IF ContextOf(t) = <<>>
       THEN /\ Return(t, "failed")
            /\ UNCHANGED session_contexts
       ELSE Store(t, Local(t).context, session_contexts, PopFirst(ContextOf(t)),
                  threads.frames, "done", "returned")
    /\ UNCHANGED <<session_caches, session_embeddings, now, last>>

NextConcContext ==
    \E t \in Threads :
        \/ context_entry(t)
        \/ context_test_session(t)
        \/ context_new_list(t)
        \/ context_take_list(t)
        \/ context_append(t)
        \/ context_test_length(t)
        \/ context_pop(t)

SpecConcContext == InitConcContext /\ [][NextConcContext]_vars

-----------------------------------------------------------------------------
(* Properties *)

Added(session_id) ==
    /\ last.op = "add_to_semantic_cache"
    /\ last.session_id = session_id

\* C1: under sequential calls of every public operation, with embedding calls
\* that succeed or fail, no session ever holds more than 50 cache entries.
C1_CacheBound ==
    \A s \in DOMAIN session_caches : Len(session_caches[s]) <= max_session_cache_size

\* a new query has just been inserted into "s1" at the cap: the first query of
\* the conversation is gone and the session holds 50 entries
C1_Witness ==
    /\ Added("s1") /\ last.embed_ok /\ last.query = Query(55)
    /\ "s1" \in DOMAIN session_caches
    /\ Len(session_caches["s1"]) = max_session_cache_size
    /\ Query(55) \in DictKeys(session_caches["s1"])
    /\ Query(1) \notin DictKeys(session_caches["s1"])

\* C2: an insert of a new query text, its embedding computed, into a session
\* holding 50 entries removes exactly the first-inserted entry, keeps every other
\* entry as it was and in order, and ends with the new entry in last place.
C2_EvictsOldestAtCap ==
    [][\A s \in SessionIds :
          (/\ last'.op = "add_to_semantic_cache"
           /\ last'.session_id = s
           /\ last'.embed_ok
           /\ s \in DOMAIN session_caches
           /\ Len(session_caches[s]) = max_session_cache_size
           /\ last'.query \notin DictKeys(session_caches[s]))
          => LET pre == session_caches[s]
                 post == session_caches'[s]
             IN  /\ Len(post) = max_session_cache_size
                 /\ DictKeys(pre) \ DictKeys(post) = {pre[1].query}
                 /\ \A i \in 1..(max_session_cache_size - 1) : post[i] = pre[i + 1]
                 /\ post[max_session_cache_size].query = last'.query
                 /\ post[max_session_cache_size].response = last'.response
                 /\ DOMAIN session_embeddings'[s] = DictKeys(post)]_vars

\* the insert of Query(55) at the cap has happened: the second query of the
\* conversation is now the oldest entry and Query(55) the newest
C2_Witness ==
    /\ Added("s1") /\ last.embed_ok /\ last.query = Query(55)
    /\ "s1" \in DOMAIN session_caches
    /\ Len(session_caches["s1"]) = max_session_cache_size
    /\ session_caches["s1"][1].query = Query(2)
    /\ session_caches["s1"][max_session_cache_size].query = Query(55)
    /\ session_caches["s1"][max_session_cache_size].timestamp = now

\* C3: an insert whose embedding call fails changes nothing: sessions, cache
\* entries, embeddings and context turns are as before, and nothing is raised.
C3_FailedInsertIsNoOp ==
    [][(last'.op = "add_to_semantic_cache" /\ ~last'.embed_ok)
          => (tables' = tables /\ ~last'.raised)]_vars

\* every thread ran an insert, and every insert has returned
AllReturned ==
    \A t \in Threads :
        Local(t).op = "add" /\ Local(t).pc = "done" /\ Local(t).outcome = "returned"

\* the concurrent calls started on the full session: after at most NumThreads
\* evictions the last query of its history is still cached
StartedFull ==
    /\ "s1" \in DOMAIN session_caches
    /\ Query(max_session_cache_size) \in DictKeys(session_caches["s1"])

\* C4: once all concurrent inserts of distinct new queries into a session that
\* held 50 entries have returned (every embedding computed), the session holds
\* exactly 50 entries, whatever the interleaving.
C4_ConcurrentInsertsKeepCap ==
    (AllReturned /\ StartedFull) => Len(session_caches["s1"]) = max_session_cache_size

\* cosine similarity as specified: 0 when either norm is zero
SpecSimilarity(a, b) ==
    IF Norm(a) = 0 \/ Norm(b) = 0 THEN Rat(0, 1) ELSE Rat(Dot(a, b), Norm(a) * Norm(b))

\* the response a lookup is specified to return: that of the first entry, in
\* insertion order, whose similarity is the maximum, if that is >= 0.75
SpecLookup(session_cache, embeddings, query) ==
    LET sims == [i \in DOMAIN session_cache |->
                    SpecSimilarity(EmbedOf(query), embeddings[session_cache[i].query])]
        best == {i \in DOMAIN session_cache :
                    /\ FloatGE(sims[i], cache_threshold)
                    /\ \A j \in DOMAIN session_cache : FloatGE(sims[i], sims[j])}
    IN  IF best = {} THEN None
        ELSE Some(session_cache[CHOOSE i \in best : \A j \in best : i <= j].response)

Looked ==
    /\ last.op = "check_semantic_cache"
    /\ last.embed_ok
    /\ last.session_id \in DOMAIN session_caches

\* C5: a lookup whose embedding succeeds returns the response of the entry of
\* maximum similarity if that similarity is >= 0.75, the first inserted among
\* equals, and none if no entry reaches 0.75.
C5_LookupReturnsBest ==
    Looked => last.ret = SpecLookup(session_caches[last.session_id],
                                    session_embeddings[last.session_id], last.query)

\* C6: under sequential calls, the entry table and the embedding table hold the
\* same sessions and, per session, the same queries, failed embeddings included.
C6_EntryIffEmbedding ==
    /\ DOMAIN session_caches = DOMAIN session_embeddings
    /\ \A s \in DOMAIN session_caches :
          DictKeys(session_caches[s]) = DOMAIN session_embeddings[s]

\* an insert into the full session has failed at the embedding call, after the
\* eviction: the first query has left both tables
C6_Witness ==
    /\ Added("s1") /\ ~last.embed_ok
    /\ "s1" \in DOMAIN session_caches
    /\ Len(session_caches["s1"]) = max_session_cache_size - 1
    /\ Query(1) \notin DictKeys(session_caches["s1"])
    /\ Query(1) \notin DOMAIN session_embeddings["s1"]

OldestFirst(context) ==
    \A i \in 1..(Len(context) - 1) : context[i].timestamp < context[i + 1].timestamp

\* C7: a session never holds more than 10 turns and holds them oldest first; an
\* append to a session of 10 turns drops the oldest and leaves the other 9, in
\* order, followed by the new turn.
C7_ContextBound ==
    /\ [](\A s \in DOMAIN session_contexts :
              /\ Len(session_contexts[s]) <= max_context_length
              /\ OldestFirst(session_contexts[s]))
    /\ [][\A s \in SessionIds :
            (/\ last'.op = "add_to_context"
             /\ last'.session_id = s
             /\ s \in DOMAIN session_contexts
             /\ Len(session_contexts[s]) = max_context_length)
            => session_contexts'[s] =
                  Tail(session_contexts[s])
                  \o <<CacheItem(last'.query, last'.response, now')>>]_vars

\* a turn has been appended to the 10 turns of the 50-turn conversation: turn 41
\* is gone, turn 42 is the oldest and the new turn the newest
C7_Witness ==
    /\ last.op = "add_to_context" /\ last.session_id = "s1"
    /\ Len(session_contexts["s1"]) = max_context_length
    /\ session_contexts["s1"][1].query = Query(max_session_cache_size - 8)
    /\ session_contexts["s1"][max_context_length].timestamp = now
    /\ session_contexts["s1"][max_context_length].query = last.query

Count(table, session_id) == IF session_id \in DOMAIN table THEN Len(table[session_id]) ELSE 0

\* C8: after clear_session_cache(S) every lookup on S returns none, every
\* enhanced query on S is the query itself, and the three totals of
\* get_session_stats have lost S, its entries and its turns.
C8_ClearIsTotal ==
    [][last'.op = "clear_session_cache"
          => LET s == last'.session_id
                 before == GetSessionStats(session_caches, session_contexts)
                 after == GetSessionStats(session_caches', session_contexts')
             IN  /\ \A q \in QueryArgs, ok \in BOOLEAN :
                        CheckSemanticCache(session_caches', session_embeddings', q, s, ok)
                            = [ret |-> None, raised |-> FALSE]
                 /\ \A q \in QueryArgs :
                        GetContextForQuery(session_contexts', s, q) = q
                 /\ s \notin DOMAIN session_caches'
                 /\ s \notin DOMAIN session_embeddings'
                 /\ s \notin DOMAIN session_contexts'
                 /\ after.total_sessions = before.total_sessions
                        - (IF s \in DOMAIN session_caches THEN 1 ELSE 0)
                 /\ after.total_cached_queries = before.total_cached_queries
                        - Count(session_caches, s)
                 /\ after.total_contexts = before.total_contexts
                        - Count(session_contexts, s)]_vars

\* the long conversation on "s1" has just been cleared while "s2" keeps its own
C8_Witness ==
    /\ last.op = "clear_session_cache" /\ last.session_id = "s1"
    /\ now = 1
    /\ "s1" \notin DOMAIN session_caches
    /\ "s2" \in DOMAIN session_caches
    /\ "s2" \in DOMAIN session_contexts

\* the sessions that have any state: a cache entry or a context turn
ActiveSessions ==
    {s \in SessionIds : Count(session_caches, s) > 0 \/ Count(session_contexts, s) > 0}

\* C9: get_session_stats reports the number of sessions with any state, the
\* sum of the cache entries and the sum of the context turns of all sessions.
C9_StatsCountActiveSessions ==
    last.op = "get_session_stats"
        => /\ last.ret.total_sessions = Cardinality(ActiveSessions)
           /\ last.ret.total_cached_queries = SumLen(session_caches, DOMAIN session_caches)
           /\ last.ret.total_contexts = SumLen(session_contexts, DOMAIN session_contexts)

\* everything the manager holds for one session
SessionState(caches, embeddings, contexts, session_id) ==
    [cache |-> IF session_id \in DOMAIN caches THEN Some(caches[session_id]) ELSE None,
     embeddings |-> IF session_id \in DOMAIN embeddings THEN Some(embeddings[session_id])
                    ELSE None,
     context |-> IF session_id \in DOMAIN contexts THEN Some(contexts[session_id]) ELSE None]

SessionOps ==
    {"add_to_semantic_cache", "add_to_context", "check_semantic_cache",
     "get_context_for_query", "clear_session_cache"}

\* C10: an operation called with session id S1 leaves the entries, embeddings
\* and turns of every other session S2 as they were, and every lookup and
\* enhanced query on S2 gives after it what it gave before it (compared when
\* the operation changed a table: on the same tables they are the same).
C10_OtherSessionsUntouched ==
    [][last'.op \in SessionOps
          => \A s2 \in SessionIds \ {last'.session_id} :
                /\ SessionState(session_caches', session_embeddings', session_contexts', s2)
                      = SessionState(session_caches, session_embeddings, session_contexts, s2)
                /\ tables' # tables =>
                      \A q \in QueryArgs :
                         /\ \A ok \in BOOLEAN :
                               CheckSemanticCache(session_caches', session_embeddings',
                                                  q, s2, ok)
                               = CheckSemanticCache(session_caches, session_embeddings,
                                                    q, s2, ok)
                         /\ GetContextForQuery(session_contexts', s2, q)
                               = GetContextForQuery(session_contexts, s2, q)]_vars

\* a query has just been cached on "s1" while "s2" holds an entry and a turn of
\* its own
C10_Witness ==
    /\ Added("s1") /\ last.embed_ok
    /\ "s1" \in DOMAIN session_caches
    /\ last.query \in DictKeys(session_caches["s1"])
    /\ DictGet(session_caches["s1"], last.query).timestamp = now
    /\ Count(session_caches, "s2") > 0
    /\ Count(session_contexts, "s2") > 0

\* the places of the line breaks of a text
Breaks(text) == {i \in DOMAIN text : text[i] = Newline[1]}

\* the k-th line of a text
Line(text, k) ==
    LET at(n) == IF n = 0 THEN 0
                 ELSE IF n > Cardinality(Breaks(text)) THEN Len(text) + 1
                 ELSE CHOOSE p \in Breaks(text) :
                         Cardinality({x \in Breaks(text) : x < p}) = n - 1
    IN  SubSeq(text, at(k - 1) + 1, at(k) - 1)

\* the lines a prompt is specified to have for turns 1..n of a session and the
\* current query q: for each of the last min(3, n) turns, oldest first, its
\* query and the first 100 characters of its response, then q
SpecPromptLines(context, q) ==
    LET n == Len(context)
        m == Min(3, n)
        turn(j) == context[n - m + j]
        first100(r) == [i \in 1..Min(100, Len(r)) |-> r[i]]
    IN  [k \in 1..(2 * m + 1) |->
            IF k = 2 * m + 1 THEN CurrentPrefix \o q
            ELSE IF k % 2 = 1 THEN UserPrefix \o turn((k + 1) \div 2).query
            ELSE AnswerPrefix \o first100(turn(k \div 2).response) \o Ellipsis]

\* C11: get_context_for_query(S, q) returns q when S has no turns; otherwise
\* its lines are exactly, for the last min(3, n) turns oldest first, the turn's
\* query and the first 100 characters of its response, then one line with q.
C11_PromptWindow ==
    last.op = "get_context_for_query"
        => LET context == IF last.session_id \in DOMAIN session_contexts
                          THEN session_contexts[last.session_id] ELSE <<>>
               lines == SpecPromptLines(context, last.query)
           IN  IF context = <<>> THEN last.ret = last.query
               ELSE /\ Cardinality(Breaks(last.ret)) + 1 = Len(lines)
                    /\ \A k \in DOMAIN lines : Line(last.ret, k) = lines[k]

\* a prompt has been built on "s1" after five turns, the last with a response
\* of 101 characters: seven lines, the first the query of the third turn
C11_Witness ==
    /\ last.op = "get_context_for_query" /\ last.session_id = "s1"
    /\ "s1" \in DOMAIN session_contexts
    /\ Len(session_contexts["s1"]) = 5
    /\ Len(session_contexts["s1"][5].response) = 100 + 1
    /\ Cardinality(Breaks(last.ret)) = 6
    /\ Line(last.ret, 1) = UserPrefix \o Query(3)
    /\ Len(Line(last.ret, 6)) = Len(AnswerPrefix) + 100 + Len(Ellipsis)

\* Active: the session holds at least one cache entry or one context turn
IsActive(caches, contexts, session_id) ==
    Count(caches, session_id) > 0 \/ Count(contexts, session_id) > 0

\* C12: an Active session stays Active after every operation other than
\* clear_session_cache on it and clear_all_caches: inserts, failed ones
\* included, appends, lookups, prompts and stats never make it Unseen.
C12_ActiveUntilCleared ==
    [][\A s \in SessionIds :
          (/\ IsActive(session_caches, session_contexts, s)
           /\ last'.op # "clear_all_caches"
           /\ ~(last'.op = "clear_session_cache" /\ last'.session_id = s))
          => IsActive(session_caches', session_contexts', s)]_vars

\* an insert into "s2", which held one cache entry and no turn, has failed at
\* the embedding call: the entry is still there
C12_Witness ==
    /\ Added("s2") /\ ~last.embed_ok
    /\ now = 2
    /\ Count(session_caches, "s2") = 1
    /\ "s2" \notin DOMAIN session_contexts
    /\ session_caches["s2"][1].timestamp = 1

\* the session id is in none of the three tables: never touched, or cleared
Untouched(session_id) ==
    /\ session_id \notin DOMAIN session_caches
    /\ session_id \notin DOMAIN session_embeddings
    /\ session_id \notin DOMAIN session_contexts

\* C13: on a session id that was never touched or was cleared, a lookup
\* returns none, a prompt is the query itself, a clear does nothing; none of
\* them raises, and the tables and the stats are afterwards as before.
C13_UntouchedSessionDefaults ==
    [][(/\ last'.op \in {"check_semantic_cache", "get_context_for_query",
                         "clear_session_cache"}
        /\ Untouched(last'.session_id))
          => /\ ~last'.raised
             /\ last'.op = "check_semantic_cache" => last'.ret = None
             /\ last'.op = "get_context_for_query" => last'.ret = last'.query
             /\ tables' = tables
             /\ GetSessionStats(session_caches', session_contexts')
                   = GetSessionStats(session_caches, session_contexts)]_vars

\* a prompt has been asked for on "s2", which is in no table, while "s1" holds
\* its conversation
C13_Witness ==
    /\ last.op = "get_context_for_query" /\ last.session_id = "s2"
    /\ Untouched("s2")
    /\ last.ret = last.query
    /\ Count(session_caches, "s1") > 0

\* C14: a lookup running concurrently with inserts and clears on its session
\* always returns (a response or none): it never fails on a session that is
\* half created or half cleared, nor on a dict that changes while it is
\* scanned; and it takes a response only from an entry whose embedding is
\* written.
C14_LookupSurvivesWriters ==
    /\ [](\A t \in Threads :
              (Local(t).op = "check" /\ Local(t).pc = "done")
                  => Local(t).outcome = "returned")
    /\ [][\A t \in Threads :
              (/\ Local(t).op = "check"
               /\ At(t, "l70")
               /\ threads'.frames[t].best # Local(t).best)
                  => Local(t).item.query \in DOMAIN EmbeddingsOf(t)]_vars

\* the session's cache entries are gone, its embeddings or its turns are not
HalfCleared(session_id) ==
    /\ session_id \notin DOMAIN session_caches
    /\ \/ session_id \in DOMAIN session_embeddings
       \/ session_id \in DOMAIN session_contexts

\* a clear that has passed line 193 and has not finished
Clearing(t) ==
    /\ Local(t).op = "clear"
    /\ Local(t).pc \in {"l194", "l195", "l196", "l197"}

\* the statements that read the session tables
TableReads == {"l49", "l52", "l53", "l90", "l94", "l95", "l192", "l194", "l196"}

\* C15: clear_session_cache is atomic for the calls running beside it: none
\* of them reads the session tables while a clear in progress has removed the
\* session's cache entries and not yet its embeddings or its turns.
C15_ClearIsAtomic ==
    [][\A u \in Threads :
          (/\ threads'.frames[u].pc # Local(u).pc
           /\ Local(u).pc \in TableReads)
              => ~\E v \in Threads \ {u} :
                     Clearing(v) /\ HalfCleared(SessionOf(v))]_vars

\* the statements of add_to_semantic_cache that create the session's dicts,
\* read the size of its entry set or evict from it
EntrySetSteps == {"l91", "l92", "l98", "l100", "l101", "l102"}

\* C16: an insert creates the session's dicts, tests the size of its entry set
\* and evicts only after its own embedding call has returned.
C16_EmbeddingComesFirst ==
    [][\A t \in Threads :
          (/\ Local(t).op = "add"
           /\ threads'.frames[t].pc # Local(t).pc
           /\ Local(t).pc \in EntrySetSteps)
              => Local(t).embedded]_vars

\* x == y of floats: false when either side is NaN
FloatEQ(x, y) == ~IsNaN(x) /\ ~IsNaN(y) /\ x.num * y.den = y.num * x.den

\* C17: _calculate_similarity(a, b) raises nothing and returns 0 whenever a or
\* b has zero norm.
C17_ZeroNormGivesZero ==
    (/\ last.op = "_calculate_similarity"
     /\ (Norm(last.embedding1) = 0 \/ Norm(last.embedding2) = 0))
        => (~last.raised /\ FloatEQ(last.ret, Rat(0, 1)))

\* C18: an insert of a query text already present in a session holding
\* exactly 50 entries, its embedding computed, evicts nothing: the session
\* holds the same 50 queries afterwards.
C18_ResubmitAtCapEvictsNothing ==
    [][\A s \in SessionIds :
          (/\ last'.op = "add_to_semantic_cache"
           /\ last'.session_id = s
           /\ last'.embed_ok
           /\ s \in DOMAIN session_caches
           /\ Len(session_caches[s]) = max_session_cache_size
           /\ last'.query \in DictKeys(session_caches[s]))
          => /\ Len(session_caches'[s]) = max_session_cache_size
             /\ DictKeys(session_caches'[s]) = DictKeys(session_caches[s])]_vars

\* the entries of a session whose similarity to the query reaches the threshold
Clearing75(session_cache, embeddings, query) ==
    {i \in DOMAIN session_cache :
        FloatGE(SpecSimilarity(EmbedOf(query), embeddings[session_cache[i].query]),
                cache_threshold)}

\* C19: a lookup returns none only when the session has no entries, the
\* embedding of the query fails or no entry reaches 0.75; when an entry does,
\* the response of the selected entry is returned as stored, empty or not.
C19_NoneOnlyWithoutMatch ==
    last.op = "check_semantic_cache"
        => LET s == last.session_id
               session_cache == IF s \in DOMAIN session_caches
                                THEN session_caches[s] ELSE <<>>
               matches == IF session_cache = <<>> THEN {}
                          ELSE Clearing75(session_cache, session_embeddings[s], last.query)
           IN  /\ last.ret = None => (~last.embed_ok \/ matches = {})
               /\ (last.embed_ok /\ matches # {})
                     => last.ret = SpecLookup(session_cache, session_embeddings[s],
                                              last.query)

\* C20: below the cap, an insert of a query text already cached, its embedding
\* computed, replaces response, timestamp and embedding of that entry where it
\* stands: same number of entries, same order of keys, every other entry as
\* it was.
C20_ResubmitKeepsPlace ==
    [][\A s \in SessionIds :
          (/\ last'.op = "add_to_semantic_cache"
           /\ last'.session_id = s
           /\ last'.embed_ok
           /\ s \in DOMAIN session_caches
           /\ Len(session_caches[s]) < max_session_cache_size
           /\ last'.query \in DictKeys(session_caches[s]))
          => LET pre == session_caches[s]
                 post == session_caches'[s]
                 place == DictIndex(pre, last'.query)
             IN  /\ Len(post) = Len(pre)
                 /\ \A i \in DOMAIN pre : post[i].query = pre[i].query
                 /\ \A i \in DOMAIN pre \ {place} : post[i] = pre[i]
                 /\ post[place] = CacheItem(last'.query, last'.response, now')
                 /\ session_embeddings'[s][last'.query] = EmbedOf(last'.query)
                 /\ DOMAIN session_embeddings'[s] = DOMAIN session_embeddings[s]]_vars

\* the first query of the 49-turn conversation was cached again and then a new
\* query filled the session: the key the next insert evicts is that first
\* query, whose timestamp is later than the second entry's
C20_Witness ==
    /\ Added("s1") /\ last.embed_ok
    /\ "s1" \in DOMAIN session_caches
    /\ NeedsEviction(session_caches["s1"])
    /\ OldestKey(session_caches["s1"]) = Query(1)
    /\ session_caches["s1"][1].timestamp = 1
    /\ session_caches["s1"][2].timestamp < session_caches["s1"][1].timestamp

\* every call in flight has ended
AllDone == \A t \in Threads : Local(t).pc = "done"

\* C21: concurrent add_to_context calls never fail, and once all of them have
\* returned no session holds more than 10 turns, whatever the interleaving of
\* their appends, length checks and removals.
C21_ConcurrentAppendsKeepBound ==
    /\ \A t \in Threads : Local(t).outcome # "failed"
    /\ AllDone => \A s \in DOMAIN session_contexts :
                      Len(session_contexts[s]) <= max_context_length

\* all calls appended to "s1", which held 10 turns, and have returned: one
\* turn per call was removed from the front and the session holds 10 turns,
\* the newest appended last
C21_Witness ==
    /\ AllDone
    /\ \A t \in Threads : Local(t).op = "context" /\ SessionOf(t) = "s1"
    /\ now = NumThreads
    /\ Len(session_contexts["s1"]) = max_context_length
    /\ session_contexts["s1"][1].query = Query(NumThreads + 1)
    /\ session_contexts["s1"][max_context_length].timestamp = now

====
